---------------------------- MODULE Spec2Model ----------------------------
(* A model of the talent-outreach scripts: the three pipeline drivers      *)
(* (talent-outreach.py, talent_engine.py, vp_scraper.py) and the helper    *)
(* functions they share (extract_clean_value, is_target_title,             *)
(* generate_message, get_email_from_github, hunter_lookup).                *)
(* Python strings are TLA+ strings; other Python values are tagged         *)
(* records (None, the float NaN, an int).                                  *)
EXTENDS Integers, Sequences, FiniteSets, TLC

VARIABLES
    variant,          \* which script runs
    read,             \* outcome of pd.read_csv(PHANTOMBUSTER_CSV)
    df,               \* the rows of the data frame (functions column -> cell)
    pc,               \* position of the driver
    index,            \* loop index over the rows (0-based, as in the code)
    people_data,      \* talent_engine.py: the leads collected by the first loop
    calls,            \* every sheet.append_row call, in order, with its outcome
    outcome,          \* per input row: its terminal outcome so far
    successful_rows,  \* the drivers' counter of successful appends
    person,           \* talent_engine.py: position of the second loop in people_data
    companies,        \* the drivers' local list of companies, as last built
    fn, args, ret,    \* a single call of one helper function, and what it returned
    gh                \* one run of vp_scraper.py's get_email_from_github

vars == <<variant, read, df, pc, index, people_data, calls, outcome,
          successful_rows, person, companies, fn, args, ret, gh>>

pipeVars == <<variant, read, df, pc, index, people_data, calls, outcome,
              successful_rows, person, companies>>

callVars == <<fn, args, ret>>

-----------------------------------------------------------------------------
(* Bounds of the model.                                                    *)

\* the longest CSV (number of data rows) the drivers are run on
MaxRows == 2

\* the most repositories a mined profile lists
MaxRepos == 2

\* the most commits a repository lists
MaxCommits == 2

\* the longest list of companies generate_message is called with
MaxCompanies == 4

-----------------------------------------------------------------------------
(* Python values.                                                          *)

None == [t |-> "None"]

NaN == [t |-> "float", nan |-> TRUE]

Str(s) == [t |-> "str", s |-> s]

PyInt(n) == [t |-> "int", n |-> n]

\* An exception that left a function: the function returned nothing.
Raised(e) == [t |-> "raise", e |-> e]

IsStr(v) == v.t = "str"

\* Python truthiness: None and "" are false, 0 is false, NaN is true.
Truthy(v) ==
    CASE v.t = "None" -> FALSE
      [] v.t = "str" -> v.s # ""
      [] v.t = "int" -> v.n # 0
      [] OTHER -> TRUE

\* a or b
Or(a, b) == IF Truthy(a) THEN a ELSE b

\* pd.isna on a scalar
isna(v) == v.t = "None" \/ v.t = "float"

\* str(v) and f"{v}"
PyStr(v) ==
    CASE v.t = "str" -> v.s
      [] v.t = "None" -> "None"
      [] v.t = "float" -> "nan"
      [] v.t = "int" -> SubSeq("0123456789", v.n + 1, v.n + 1)

-----------------------------------------------------------------------------
(* Python string methods.                                                  *)

UpperCase == "ABCDEFGHIJKLMNOPQRSTUVWXYZ"

LowerCase == "abcdefghijklmnopqrstuvwxyz"

Whitespace == {" ", "\t"}

Char(s, i) == SubSeq(s, i, i)

ToLower ==
    [c \in {Char(UpperCase, i) : i \in 1..Len(UpperCase)} |->
        Char(LowerCase, CHOOSE i \in 1..Len(UpperCase) : Char(UpperCase, i) = c)]

LowerChar(c) == IF c \in DOMAIN ToLower THEN ToLower[c] ELSE c

\* s.lower()
RECURSIVE Lower(_)
Lower(s) == IF s = "" THEN "" ELSE LowerChar(Head(s)) \o Lower(Tail(s))

\* s.lstrip()
RECURSIVE LStrip(_)
LStrip(s) ==
    IF s # "" /\ Head(s) \in Whitespace THEN LStrip(Tail(s)) ELSE s

\* s.rstrip()
RECURSIVE RStrip(_)
RStrip(s) ==
    IF s # "" /\ Char(s, Len(s)) \in Whitespace
    THEN RStrip(SubSeq(s, 1, Len(s) - 1))
    ELSE s

\* s.strip()
Strip(s) == RStrip(LStrip(s))

\* sub in s
Contains(s, sub) ==
    \E i \in 1..(Len(s) - Len(sub) + 1) : SubSeq(s, i, i + Len(sub) - 1) = sub

\* s.startswith(prefix)
StartsWith(s, prefix) ==
    Len(s) >= Len(prefix) /\ SubSeq(s, 1, Len(prefix)) = prefix

\* the first token of s.split(); s has a non-whitespace character
RECURSIVE Token(_)
Token(s) ==
    IF s = "" \/ Head(s) \in Whitespace THEN "" ELSE Head(s) \o Token(Tail(s))

\* s.split()[0]: IndexError when s holds nothing but whitespace
SplitFirst(s) ==
    IF LStrip(s) = "" THEN Raised("IndexError") ELSE Str(Token(LStrip(s)))

\* sep.join(xs)
RECURSIVE Join(_, _)
Join(sep, xs) ==
    IF xs = <<>> THEN ""
    ELSE IF Len(xs) = 1 THEN xs[1]
    ELSE xs[1] \o sep \o Join(sep, Tail(xs))

\* xs[:n]
Slice(xs, n) == SubSeq(xs, 1, IF Len(xs) < n THEN Len(xs) ELSE n)

\* xs in the opposite order
Reverse(xs) == [i \in 1..Len(xs) |-> xs[Len(xs) + 1 - i]]

-----------------------------------------------------------------------------
(* extract_clean_value(row, column_names)                                  *)

NullWords == {"nan", "none", "null", ""}

\* one pass of the for loop, from the i-th candidate on
RECURSIVE extract_from(_, _, _)
extract_from(row, column_names, i) ==
    IF i > Len(column_names) THEN None
    ELSE LET col_name == column_names[i]
             next == extract_from(row, column_names, i + 1)
         IN  IF col_name \notin DOMAIN row THEN next
             ELSE LET raw_value == row[col_name]
                      clean_value == Strip(PyStr(raw_value))
                  IN  IF raw_value = None THEN next
                      ELSE IF isna(raw_value) THEN next
                      ELSE IF clean_value # "" /\ Lower(clean_value) \notin NullWords
                           THEN Str(clean_value)
                           ELSE next

\* extract_clean_value with the candidates tried from the last to the first
extract_last_candidate(row, column_names) ==
    extract_from(row, Reverse(column_names), 1)

extract_clean_value(row, column_names) == extract_from(row, column_names, 1)

-----------------------------------------------------------------------------
(* is_target_title(title)                                                  *)

target_titles ==
    << "vp of engineering",
       "vp engineering",
       "vice president of engineering",
       "engineering manager",
       "cto",
       "director of engineering" >>

\* the for loop over the targets, in list order, then the "vp" check
RECURSIVE title_scan(_, _, _)
title_scan(title_lower, targets, i) ==
    IF i > Len(targets) THEN Contains(title_lower, "vp")
    ELSE IF Contains(title_lower, targets[i]) THEN TRUE
    ELSE title_scan(title_lower, targets, i + 1)

\* is_target_title without title.lower()
is_target_title_case_sensitive(title) ==
    IF ~Truthy(title) THEN FALSE
    ELSE title_scan(title.s, target_titles, 1)

is_target_title(title) ==
    IF ~Truthy(title) THEN FALSE
    ELSE title_scan(Lower(title.s), target_titles, 1)

-----------------------------------------------------------------------------
(* generate_message(name, companies): talent-outreach.py, talent_engine.py *)

MessageHead == "! Really inspiring background leading + recruiting top eng talent ("

\* the dash of the source's "you-totally" is written in ASCII here
MessageTail == "). I'm a first-time founder hiring a VP Eng + scaling (building an AI fashion discovery platform $ by Bloomberg Beta, 1517, etc). Would love to learn from you-totally get if now's not a good time!"

first_name(name) == IF Truthy(name) THEN SplitFirst(name.s) ELSE Str("there")

\* companies_text without the [:3]
companies_text_untruncated(cs) ==
    IF cs # <<>> THEN Join(", ", cs) ELSE "your background"

companies_text(cs) ==
    IF cs # <<>> THEN Join(", ", Slice(cs, 3)) ELSE "your background"

generate_message(name, cs) ==
    IF first_name(name).t = "raise" THEN first_name(name)
    ELSE Str(first_name(name).s \o MessageHead \o companies_text(cs) \o MessageTail)

-----------------------------------------------------------------------------
(* The companies list of main(): talent-outreach.py 129-142,               *)
(* talent_engine.py 123-133.                                               *)

is_company(v) == Truthy(v) /\ ~StartsWith(v.s, "http")

with_current_company(row) ==
    LET current_company == extract_clean_value(row, <<"company">>)
    IN  IF is_company(current_company) THEN <<current_company.s>> ELSE <<>>

InList(x, xs) == \E i \in 1..Len(xs) : xs[i] = x

\* build_companies without the test "company2 not in companies"
build_companies_no_dedup(row) ==
    LET company2 == extract_clean_value(row, <<"company2">>)
    IN  IF is_company(company2)
        THEN Append(with_current_company(row), company2.s)
        ELSE with_current_company(row)

build_companies(row) ==
    LET cs == with_current_company(row)
        company2 == extract_clean_value(row, <<"company2">>)
    IN  IF is_company(company2) /\ ~InList(company2.s, cs)
        THEN Append(cs, company2.s)
        ELSE cs

-----------------------------------------------------------------------------
(* vp_scraper.py: generate_message(name), hunter_lookup(domain)            *)

ScraperMessageTail == "! Really inspiring background leading+recruiting top eng talent-I'd love to learn from your experience. I'm a first-time founder (building an agentic fashion discovery platform backed by Bloomberg Beta, 1517 VC, etc) + hiring a VP Eng + scaling. Open to a quick chat?"

scraper_generate_message(name) == Str(PyStr(name) \o ScraperMessageTail)

\* s.replace(' ', '')
RECURSIVE RemoveSpaces(_)
RemoveSpaces(s) ==
    IF s = "" THEN ""
    ELSE IF Head(s) = " " THEN RemoveSpaces(Tail(s))
    ELSE Head(s) \o RemoveSpaces(Tail(s))

\* f"{company.lower().replace(' ', '')}.com": only a str has .lower()
domain_of(company) ==
    IF IsStr(company) THEN Str(RemoveSpaces(Lower(company.s)) \o ".com")
    ELSE Raised("AttributeError")

\* what requests.get(url) and r.json() can give hunter_lookup
HunterResponses ==
    { Raised("ConnectionError"),
      [t |-> "json", emails |-> <<>>],
      [t |-> "json", emails |-> <<"cto@acme.com">>] }

\* data['data']['emails'][0]['value'], None on any exception
hunter_lookup(response) ==
    IF response.t = "raise" THEN None
    ELSE IF response.emails = <<>> THEN None
    ELSE Str(response.emails[1])

-----------------------------------------------------------------------------
(* vp_scraper.py: get_email_from_github(github_username)                   *)

Min(S) == CHOOSE x \in S : \A y \in S : x <= y

Max(S) == CHOOSE x \in S : \A y \in S : x >= y

\* where the line holding position p ends: "." matches no newline
LineEnd(text, p) ==
    LET ends == {e \in p..Len(text) : Char(text, e) = "\n"}
    IN  IF ends = {} THEN Len(text) + 1 ELSE Min(ends)

\* the places of ">" that close a group opened by a "<" at q
Closes(text, p, q) ==
    {r \in (q + 2)..(LineEnd(text, p) - 1) : Char(text, r) = ">"}

\* the places of "<" the greedy ".*" after a "From:" at p can stop before
Opens(text, p) ==
    {q \in (p + 5)..(LineEnd(text, p) - 1) :
        Char(text, q) = "<" /\ Closes(text, p, q) # {}}

\* the places where re.search(r'From:.*<(.+?)>', text) can match
Starts(text) ==
    {p \in 1..(Len(text) - 4) : SubSeq(text, p, p + 4) = "From:" /\ Opens(text, p) # {}}

\* match.group(1) of the leftmost match (".*" greedy, ".+?" lazy), or None
from_email(text) ==
    IF Starts(text) = {} THEN None
    ELSE LET p == Min(Starts(text))
             q == Max(Opens(text, p))
             r == Min(Closes(text, p, q))
         IN  Str(SubSeq(text, q + 1, r - 1))

\* what user.email can be
ProfileEmails == {None, Str(""), Str("jane@corp.io")}

\* what requests.get(patch_url) can give: an exception, or the patch text
Patches ==
    { Raised("ConnectionError"),
      Str("Subject: [PATCH] fix typo\n"),
      Str("From 1a2b3c Mon Sep 17\nFrom: Ann Lee <ann@x.io>\nDate: Mon\n"),
      Str("From: Bo <bo@old.io> <bo@y.io>\n") }

\* a request the lookup made, and whether it succeeded
Request(op, repo, commit, ok) ==
    [op |-> op, repo |-> repo, commit |-> commit, ok |-> ok]

GhStart ==
    [pc |-> "get_user", email |-> None, repo |-> 0, commit |-> 0,
     trace |-> <<>>, ret |-> None]

GhOff == [GhStart EXCEPT !.pc = "off"]

\* return <value>
gh_return(g, value) == [g EXCEPT !.pc = "done", !.ret = value]

\* the outer handler: except: return None
lookup_failed(g) == gh_return(g, None)

\* repo_failed with the handler inside the loop over the commits
repo_failed_next_commit(g) == [g EXCEPT !.pc = "commits"]

\* the handler inside the loop over the repositories: except: continue
repo_failed(g) == [g EXCEPT !.pc = "repos"]

Logged(g, op, ok) ==
    [g EXCEPT !.trace = Append(@, Request(op, g.repo, g.commit, ok))]

\* user = g.get_user(github_username); email = user.email
GhGetUser ==
    /\ gh.pc = "get_user"
    /\ \/ gh' = lookup_failed(Logged(gh, "get_user", FALSE))
       \/ \E email \in ProfileEmails :
            LET g == [Logged(gh, "get_user", TRUE) EXCEPT !.email = email]
            IN  gh' = IF Truthy(email) THEN gh_return(g, email)
                      ELSE [g EXCEPT !.pc = "repos"]
    /\ UNCHANGED <<pipeVars, callVars>>

\* one step of: for repo in user.get_repos()
GhNextRepo ==
    /\ gh.pc = "repos"
    /\ \/ /\ gh.repo < MaxRepos
          /\ gh' = Logged([gh EXCEPT !.pc = "commits", !.repo = @ + 1, !.commit = 0],
                          "repo", TRUE)
       \/ gh' = gh_return(gh, gh.email)
       \/ gh' = lookup_failed(Logged([gh EXCEPT !.repo = @ + 1, !.commit = 0],
                                     "repo", FALSE))
    /\ UNCHANGED <<pipeVars, callVars>>

\* one step of: for commit in commits.reversed, with the patch it fetches
GhNextCommit ==
    /\ gh.pc = "commits"
    /\ \/ /\ gh.commit < MaxCommits
          /\ \E patch \in Patches :
               LET g == [gh EXCEPT !.commit = @ + 1]
               IN  gh' = IF patch.t = "raise" THEN repo_failed(Logged(g, "patch", FALSE))
                         ELSE IF from_email(patch.s) # None
                              THEN gh_return(Logged(g, "patch", TRUE), from_email(patch.s))
                              ELSE Logged(g, "patch", TRUE)
       \/ gh' = [gh EXCEPT !.pc = "repos"]
       \/ gh' = repo_failed(Logged([gh EXCEPT !.commit = @ + 1], "commits", FALSE))
    /\ UNCHANGED <<pipeVars, callVars>>

\* everything a lookup can return
GithubReturns == ProfileEmails \cup {from_email(p.s) : p \in {x \in Patches : x.t = "str"}}

-----------------------------------------------------------------------------
(* The input: the data frame pd.read_csv gives. All rows of a frame have   *)
(* the frame's columns; a cell is a str, or NaN where the file had nothing *)
(* or one of pandas' NA words.                                             *)

Variants == {"talent-outreach", "talent_engine", "vp_scraper"}

Filtering == {"talent-outreach", "talent_engine"}

ReadOutcomes == {"ok", "FileNotFoundError", "ParserError"}

\* a PhantomBuster export with the columns talent-outreach.py reads first
ExportRow ==
    [fullName |-> Str("Jane Doe"), company |-> Str("Acme"),
     jobTitle |-> Str("VP of Engineering"),
     profileUrl |-> Str("https://linkedin.com/in/jane"),
     company2 |-> Str("Foo Inc")]

ExportCells ==
    [fullName |-> {NaN, Str("  Null ")},
     company |-> {NaN, Str("http://acme.io"), Str(" Acme ")},
     jobTitle |-> {NaN, Str("Software Engineer"), Str("Senior VP")},
     profileUrl |-> {NaN},
     company2 |-> {NaN, Str("Acme"), Str("http://acme.io")}]

\* a sheet with the columns vp_scraper.py reads, which are aliases of the others
SheetRow ==
    [fullName |-> NaN, name |-> Str("Bob Ray"), companyName |-> Str("Initech"),
     title |-> Str("CTO"), company2 |-> Str("Initech"), github |-> Str("bobray")]

SheetCells ==
    [fullName |-> {},
     name |-> {NaN},
     companyName |-> {NaN},
     title |-> {Str("Software Engineer")},
     company2 |-> {},
     github |-> {NaN}]

\* the base row, and the rows that differ from it in one cell
Around(base, cells) ==
    {base} \cup {[base EXCEPT ![c] = v] : <<c, v>> \in
                    UNION {{c} \X cells[c] : c \in DOMAIN base}}

ExportRows ==
    Around(ExportRow, ExportCells)
        \cup {[ExportRow EXCEPT !.company = Str("http://acme.io"),
                                !.company2 = Str("http://acme.io")]}

SheetRows == Around(SheetRow, SheetCells)

RECURSIVE SeqsUpTo(_, _)
SeqsUpTo(S, n) ==
    IF n = 0 THEN {<<>>}
    ELSE LET shorter == SeqsUpTo(S, n - 1)
         IN  shorter \cup {Append(xs, x) : xs \in {ys \in shorter : Len(ys) = n - 1}, x \in S}

Frames == SeqsUpTo(ExportRows, MaxRows) \cup SeqsUpTo(SheetRows, MaxRows)

-----------------------------------------------------------------------------
(* main() of talent-outreach.py and talent_engine.py                       *)

NameAliases == <<"fullName", "name", "Name", "full_name">>

CompanyAliases == <<"company", "companyName", "Company", "employer">>

TitleAliases == <<"jobTitle", "title", "Title", "position">>

LinkedinAliases == <<"profileUrl", "linkedin", "LinkedIn", "url">>

\* df.replace([np.nan, None, 'nan', 'NaN', 'None', 'null'], '') on one cell
replace_cell(v) ==
    IF v.t = "float" \/ v.t = "None" THEN Str("")
    ELSE IF v.t = "str" /\ v.s \in {"nan", "NaN", "None", "null"} THEN Str("")
    ELSE v

replace(frame) ==
    [i \in 1..Len(frame) |-> [c \in DOMAIN frame[i] |-> replace_cell(frame[i][c])]]

\* the three "Skip if missing critical data" tests and the title filter
accepted(name, company, title) ==
    Truthy(name) /\ Truthy(company) /\ is_target_title(title)

\* the row talent-outreach.py hands to sheet.append_row
outreach_sheet_row(name, linkedin, title, company, message) ==
    <<name, Or(linkedin, Str("")), Or(title, Str("")), company, message,
      Str("Not found")>>

\* engine_sheet_row with title and company in each other's place
engine_sheet_row_swapped(p, message) ==
    <<p.name, p.linkedin_url, p.company, p.title, message, Str("")>>

\* the row talent_engine.py hands to sheet.append_row
engine_sheet_row(p, message) ==
    <<p.name, p.linkedin_url, p.title, p.company, message, Str("")>>

Call(i, row, ok) == [index |-> i, row |-> row, ok |-> ok]

SetOutcome(i, o) == [outcome EXCEPT ![i + 1] = o]

\* pd.read_csv and, in the two later scripts, df.replace
ReadCsv ==
    /\ pc = "start"
    /\ IF read = "ok"
       THEN /\ pc' = "loop"
            /\ df' = IF variant \in Filtering THEN replace(df) ELSE df
       ELSE /\ pc' = IF variant \in Filtering THEN "caught" ELSE "uncaught"
            /\ df' = df
    /\ UNCHANGED <<variant, read, index, people_data, calls, outcome,
                   successful_rows, person, companies, callVars, gh>>

\* talent-outreach.py: one pass of the loop over the rows
OutreachRow ==
    /\ variant = "talent-outreach"
    /\ pc = "loop"
    /\ index < Len(df)
    /\ LET row == df[index + 1]
           name == extract_clean_value(row, NameAliases)
           company == extract_clean_value(row, CompanyAliases)
           title == extract_clean_value(row, TitleAliases)
           linkedin == extract_clean_value(row, LinkedinAliases)
           message == generate_message(name, build_companies(row))
       IN  /\ companies' = build_companies(row)
           /\ IF ~accepted(name, company, title)
              THEN /\ outcome' = SetOutcome(index, "skipped")
                   /\ index' = index + 1
                   /\ UNCHANGED <<pc, calls, successful_rows>>
              ELSE IF message.t = "raise"
              THEN /\ pc' = "caught"
                   /\ UNCHANGED <<index, outcome, calls, successful_rows>>
              ELSE \E ok \in BOOLEAN :
                   /\ calls' = Append(calls,
                         Call(index, outreach_sheet_row(name, linkedin, title,
                                                        company, message), ok))
                   /\ successful_rows' = IF ok THEN successful_rows + 1
                                         ELSE successful_rows
                   /\ outcome' = SetOutcome(index, IF ok THEN "appended"
                                                   ELSE "append-failed")
                   /\ index' = index + 1
                   /\ pc' = pc
    /\ UNCHANGED <<variant, read, df, people_data, person, callVars, gh>>

\* talent-outreach.py: the loop is over, the summary is printed
OutreachDone ==
    /\ variant = "talent-outreach"
    /\ pc = "loop"
    /\ index = Len(df)
    /\ pc' = "done"
    /\ UNCHANGED <<variant, read, df, index, people_data, calls, outcome,
                   successful_rows, person, companies, callVars, gh>>

\* talent_engine.py: one pass of the first loop, which collects people_data
EngineCollect ==
    /\ variant = "talent_engine"
    /\ pc = "loop"
    /\ index < Len(df)
    /\ LET row == df[index + 1]
           name == extract_clean_value(row, NameAliases)
           company == extract_clean_value(row, CompanyAliases)
           title == extract_clean_value(row, TitleAliases)
           linkedin == extract_clean_value(row, LinkedinAliases)
       IN  /\ companies' = build_companies(row)
           /\ IF ~accepted(name, company, title)
              THEN /\ outcome' = SetOutcome(index, "skipped")
                   /\ people_data' = people_data
              ELSE /\ outcome' = outcome
                   /\ people_data' = Append(people_data,
                         [name |-> name, company |-> company, title |-> title,
                          linkedin_url |-> linkedin,
                          companies |-> build_companies(row),
                          row_index |-> index])
    /\ index' = index + 1
    /\ UNCHANGED <<variant, read, df, pc, calls, successful_rows, person,
                   callVars, gh>>

\* talent_engine.py: the first loop is over
EngineCollected ==
    /\ variant = "talent_engine"
    /\ pc = "loop"
    /\ index = Len(df)
    /\ pc' = "append"
    /\ UNCHANGED <<variant, read, df, index, people_data, calls, outcome,
                   successful_rows, person, companies, callVars, gh>>

\* talent_engine.py: one pass of the second loop, over people_data
EngineAppend ==
    /\ variant = "talent_engine"
    /\ pc = "append"
    /\ person < Len(people_data)
    /\ LET p == people_data[person + 1]
           message == generate_message(p.name, p.companies)
       IN  IF message.t = "raise"
           THEN /\ outcome' = SetOutcome(p.row_index, "append-failed")
                /\ UNCHANGED <<calls, successful_rows>>
           ELSE \E ok \in BOOLEAN :
                /\ calls' = Append(calls,
                      Call(p.row_index, engine_sheet_row(p, message), ok))
                /\ successful_rows' = IF ok THEN successful_rows + 1
                                      ELSE successful_rows
                /\ outcome' = SetOutcome(p.row_index, IF ok THEN "appended"
                                                      ELSE "append-failed")
    /\ person' = person + 1
    /\ UNCHANGED <<variant, read, df, pc, index, people_data, companies,
                   callVars, gh>>

\* talent_engine.py: json.dump of people_data, which the outer handler guards
EngineDump ==
    /\ variant = "talent_engine"
    /\ pc = "append"
    /\ person = Len(people_data)
    /\ \E saved \in BOOLEAN : pc' = IF saved THEN "done" ELSE "caught"
    /\ UNCHANGED <<variant, read, df, index, people_data, calls, outcome,
                   successful_rows, person, companies, callVars, gh>>

-----------------------------------------------------------------------------
(* The main loop of vp_scraper.py                                          *)

\* row.get(col)
get(row, col) == IF col \in DOMAIN row THEN row[col] ELSE None

\* the row vp_scraper.py hands to sheet.append_row
scraper_sheet_row(name, linkedin, title, company, message, email) ==
    <<name, linkedin, title, company, message, Or(email, Str("Not found"))>>

\* email = hunter_lookup(domain), then the profile mining when that found nothing
scraper_email(row, response, mined) ==
    IF ~Truthy(hunter_lookup(response)) /\ Truthy(get(row, "github"))
    THEN mined
    ELSE hunter_lookup(response)

\* one pass of: for _, row in df.iterrows(). Nothing here is guarded: an
\* exception leaves the script.
ScraperRow ==
    /\ variant = "vp_scraper"
    /\ pc = "loop"
    /\ index < Len(df)
    /\ LET row == df[index + 1]
           name == Or(get(row, "name"), get(row, "Name"))
           linkedin == Or(get(row, "linkedin"), get(row, "LinkedIn"))
           title == Or(get(row, "title"), get(row, "Title"))
           company == Or(get(row, "companyName"), get(row, "Company"))
           message == scraper_generate_message(name)
       IN  IF domain_of(company).t = "raise"
           THEN /\ pc' = "uncaught"
                /\ UNCHANGED <<index, calls, outcome>>
           ELSE \E response \in HunterResponses, mined \in GithubReturns, ok \in BOOLEAN :
                /\ calls' = Append(calls,
                      Call(index, scraper_sheet_row(name, linkedin, title, company, message,
                                      scraper_email(row, response, mined)), ok))
                /\ outcome' = SetOutcome(index, IF ok THEN "appended" ELSE "append-failed")
                /\ index' = IF ok THEN index + 1 ELSE index
                /\ pc' = IF ok THEN pc ELSE "uncaught"
    /\ UNCHANGED <<variant, read, df, people_data, successful_rows, person,
                   companies, callVars, gh>>

\* the loop is over: print("Done: Data added to Google Sheet")
ScraperDone ==
    /\ variant = "vp_scraper"
    /\ pc = "loop"
    /\ index = Len(df)
    /\ pc' = "done"
    /\ UNCHANGED <<variant, read, df, index, people_data, calls, outcome,
                   successful_rows, person, companies, callVars, gh>>

-----------------------------------------------------------------------------
(* The drivers' specification.                                             *)

CallOff == fn = "none" /\ args = <<>> /\ ret = None

PipeOff ==
    /\ variant = "none" /\ read = "ok" /\ df = <<>> /\ pc = "off"
    /\ index = 0 /\ people_data = <<>> /\ calls = <<>> /\ outcome = <<>>
    /\ successful_rows = 0 /\ person = 0 /\ companies = <<>>

Init ==
    /\ variant \in Variants
    /\ read \in ReadOutcomes
    /\ df \in IF read = "ok" THEN Frames ELSE {<<>>}
    /\ pc = "start"
    /\ index = 0
    /\ people_data = <<>>
    /\ calls = <<>>
    /\ outcome = [i \in 1..Len(df) |-> "pending"]
    /\ successful_rows = 0
    /\ person = 0
    /\ companies = <<>>
    /\ CallOff
    /\ gh = GhOff

Next ==
    \/ ReadCsv
    \/ OutreachRow
    \/ OutreachDone
    \/ EngineCollect
    \/ EngineCollected
    \/ EngineAppend
    \/ EngineDump
    \/ ScraperRow
    \/ ScraperDone

Spec == Init /\ [][Next]_vars

-----------------------------------------------------------------------------
(* One lookup by get_email_from_github.                                    *)

GhInit == PipeOff /\ CallOff /\ gh = GhStart

GhNext == GhGetUser \/ GhNextRepo \/ GhNextCommit

SpecGithub == GhInit /\ [][GhNext]_vars

-----------------------------------------------------------------------------
(* One call of a helper function, over a range of arguments.               *)

RawValues ==
    { None, NaN, PyInt(7), Str(""), Str("  "), Str("nan"), Str(" NULL "),
      Str("None"), Str(" Jane Doe "), Str("Bob") }

\* the rows over the columns fullName and name, either of which may be missing
ExtractRows ==
    UNION {[cols -> RawValues] : cols \in SUBSET {"fullName", "name"}}

ExtractCandidates ==
    { <<>>, <<"name">>, <<"fullName", "name">>, <<"name", "fullName">>,
      <<"Name", "name", "full_name">> }

Titles ==
    { None, Str(""), Str("VP of Engineering"), Str("Director of Engineering"),
      Str("Senior VP"), Str("Software Engineer"), Str("CTO"), Str("cto & founder"),
      Str("Engineering Manager"), Str("Vice President Of Engineering"),
      Str("VP Engineering"), Str("Director"), Str("SVP, Product"),
      Str("Chief Technology Officer"), Str("Doctor"), Str("Victor's deputy"),
      Str("Manager, Engineering"), Str("V.P."), Str("vp"), Str("President") }

Names ==
    { None, Str(""), Str("Jane Doe"), Str("Bob"), Str("Ann\tLee"),
      Str(" Li  Wei"), Str("  ") }

CompanyNames == {"Acme", "Foo", "Bar", "Baz"}

CompanyLists == SeqsUpTo(CompanyNames, MaxCompanies)

CallExtract ==
    /\ fn = "none"
    /\ \E row \in ExtractRows, column_names \in ExtractCandidates :
         /\ fn' = "extract_clean_value"
         /\ args' = <<row, column_names>>
         /\ ret' = extract_clean_value(row, column_names)
    /\ UNCHANGED <<pipeVars, gh>>

CallTitle ==
    /\ fn = "none"
    /\ \E title \in Titles :
         /\ fn' = "is_target_title"
         /\ args' = <<title>>
         /\ ret' = is_target_title(title)
    /\ UNCHANGED <<pipeVars, gh>>

CallMessage ==
    /\ fn = "none"
    /\ \E name \in Names, cs \in CompanyLists :
         /\ fn' = "generate_message"
         /\ args' = <<name, cs>>
         /\ ret' = generate_message(name, cs)
    /\ UNCHANGED <<pipeVars, gh>>

CallInit == PipeOff /\ CallOff /\ gh = GhOff

CallNext == CallExtract \/ CallTitle \/ CallMessage

SpecCalls == CallInit /\ [][CallNext]_vars

-----------------------------------------------------------------------------
(* Properties of the drivers.                                              *)

Terminal == {"done", "caught", "uncaught"}

Finished == {"skipped", "appended", "append-failed"}

\* the columns the running script reads a field from
AliasesOf(field) ==
    IF variant \in Filtering
    THEN CASE field = "name" -> NameAliases
           [] field = "company" -> CompanyAliases
           [] field = "title" -> TitleAliases
    ELSE CASE field = "name" -> <<"name", "Name">>
           [] field = "company" -> <<"companyName", "Company">>
           [] field = "title" -> <<"title", "Title">>

Normalized(row, field) == extract_clean_value(row, AliasesOf(field))

Qualifies(row) ==
    /\ Truthy(Normalized(row, "name"))
    /\ Truthy(Normalized(row, "company"))
    /\ Truthy(Normalized(row, "title"))
    /\ is_target_title(Normalized(row, "title"))

RowOf(call) == df[call.index + 1]

CalledFor(i) == \E k \in 1..Len(calls) : calls[k].index = i

\* C1: a row is appended to the sink only if its normalized name and company
\* are non-empty and its normalized title is non-empty and accepted by the
\* title classifier.
C1_AppendedOnlyIfQualifying ==
    \A k \in 1..Len(calls) : calls[k].ok => Qualifies(RowOf(calls[k]))

\* C1, in the two scripts that filter (talent-outreach.py, talent_engine.py):
\* there the statement holds.
C1_InFilteringScripts ==
    variant \in Filtering => C1_AppendedOnlyIfQualifying

\* C2: when the append for one row fails, every later row is still processed
\* and, if it qualifies, still offered to the sink.
C2_FailureHaltsNothing ==
    pc \in Terminal =>
        \A k \in 1..Len(calls) : ~calls[k].ok =>
            \A i \in (calls[k].index + 1)..(Len(df) - 1) :
                /\ outcome[i + 1] \in Finished
                /\ Qualifies(df[i + 1]) => CalledFor(i)

\* C2, in the two scripts that filter: there the statement holds.
C2_InFilteringScripts ==
    variant \in Filtering => C2_FailureHaltsNothing

\* C3: append is called exactly once for each qualifying row and never for
\* another row, in input-row order.
C3_OneCallPerQualifyingRow ==
    /\ \A k \in 1..Len(calls) : Qualifies(RowOf(calls[k]))
    /\ \A k, l \in 1..Len(calls) : k < l => calls[k].index < calls[l].index
    /\ pc = "done" => \A i \in 0..(Len(df) - 1) : Qualifies(df[i + 1]) => CalledFor(i)

\* C3, in the two scripts that filter: there the statement holds.
C3_InFilteringScripts ==
    variant \in Filtering => C3_OneCallPerQualifyingRow

\* C4: no exception leaves the entry point, and when the run has ended every
\* row that was read has exactly one terminal outcome.
C4_NothingEscapes ==
    /\ pc # "uncaught"
    /\ pc \in Terminal => \A i \in 1..Len(df) : outcome[i] \in Finished

\* C4, in the two scripts that filter: there the statement holds.
C4_InFilteringScripts ==
    variant \in Filtering => C4_NothingEscapes

\* a row whose non-empty company2 equals its primary company
SameCompanyTwice(row) ==
    /\ Truthy(extract_clean_value(row, <<"company2">>))
    /\ extract_clean_value(row, <<"company2">>) = extract_clean_value(row, CompanyAliases)

\* the row the companies list was last built from
LastRow == df[index]

BuiltCompanies == variant \in Filtering /\ pc # "start" /\ index > 0

\* C7 as stated: for every row whose company2 equals its primary company the
\* companies list has length exactly 1.
C7_DuplicateGivesOne ==
    (BuiltCompanies /\ SameCompanyTwice(LastRow)) => Len(companies) = 1

\* C7 as amended: such a row gives a list of length exactly 1 when the shared
\* value does not start with "http", and an empty list when it does.
C7_DuplicateGivesOneUnlessUrl ==
    (BuiltCompanies /\ SameCompanyTwice(LastRow)) =>
        Len(companies) =
            IF StartsWith(extract_clean_value(LastRow, <<"company2">>).s, "http")
            THEN 0 ELSE 1

\* C7's case: the company column and company2 hold the same usable name, and
\* the list holds it once.
C7_Witness ==
    /\ BuiltCompanies
    /\ SameCompanyTwice(LastRow)
    /\ extract_clean_value(LastRow, <<"company">>) = Str("Acme")
    /\ companies = <<"Acme">>

\* the addresses a lookup can resolve
ResolvedEmails ==
    {e \in {hunter_lookup(r) : r \in HunterResponses} \cup GithubReturns : Truthy(e)}

-----------------------------------------------------------------------------
(* Properties of get_email_from_github.                                    *)

Failures == {k \in 1..Len(gh.trace) : ~gh.trace[k].ok}

Before(e, f) == e.repo < f.repo \/ (e.repo = f.repo /\ e.commit < f.commit)

\* C9 as stated: any failure aborts the lookup: it returns nothing and
\* nothing is examined after the failure.
C9_AnyFailureAborts ==
    \A k \in Failures :
        /\ k = Len(gh.trace)
        /\ gh.pc = "done"
        /\ gh.ret = None

\* C9 as amended: a failure fetching the user or listing the repositories
\* aborts the lookup, which returns nothing; a failure listing a repository's
\* commits or fetching a patch ends the work on that repository only, and the
\* lookup goes on with the next one; no request is made twice.
C9_FailureAbortsOrSkipsRepo ==
    /\ \A k \in Failures :
         LET e == gh.trace[k]
         IN  /\ e.op \in {"get_user", "repo"} =>
                    k = Len(gh.trace) /\ gh.pc = "done" /\ gh.ret = None
             /\ e.op \in {"patch", "commits"} =>
                    \A l \in (k + 1)..Len(gh.trace) : gh.trace[l].repo > e.repo
    /\ \A k, l \in 1..Len(gh.trace) : k < l => Before(gh.trace[k], gh.trace[l])

\* C9's case: a patch could not be fetched, the next repository was examined,
\* and the lookup returned an address found there.
C9_Witness ==
    /\ gh.pc = "done"
    /\ Truthy(gh.ret)
    /\ \E k \in Failures :
         /\ gh.trace[k].op = "patch"
         /\ \E l \in (k + 1)..Len(gh.trace) :
              gh.trace[l].op = "patch" /\ gh.trace[l].repo = gh.trace[k].repo + 1

-----------------------------------------------------------------------------
(* Properties of the helper functions.                                     *)

AllWhitespace(s, i, j) == \A k \in i..j : Char(s, k) \in Whitespace

\* t is s without the whitespace at its two ends
IsTrimOf(t, s) ==
    \E i \in 1..(Len(s) + 1), j \in 0..Len(s) :
        /\ t = SubSeq(s, i, j)
        /\ AllWhitespace(s, 1, i - 1)
        /\ AllWhitespace(s, j + 1, Len(s))
        /\ t # "" => Char(s, i) \notin Whitespace /\ Char(s, j) \notin Whitespace

\* a and b are equal but for the case of their letters
SameLetters(a, b) ==
    Len(a) = Len(b) /\ \A k \in 1..Len(a) : LowerChar(Char(a, k)) = LowerChar(Char(b, k))

\* what a cell's text is once trimmed
TrimmedText(v) == CHOOSE t \in {SubSeq(PyStr(v), i, j) :
                                   i \in 1..(Len(PyStr(v)) + 1), j \in 0..Len(PyStr(v))} :
                      IsTrimOf(t, PyStr(v))

\* a value the normalizer may return: not null-like, not empty once trimmed,
\* none of the words nan, none, null in any case
Usable(v) ==
    /\ v # None /\ v # NaN
    /\ TrimmedText(v) # ""
    /\ \A w \in {"nan", "none", "null"} : ~SameLetters(TrimmedText(v), w)

\* C5: extract_clean_value returns the trimmed string of the first candidate
\* column, in list order, that is in the row and holds a usable value; it
\* returns None when there is none, and raises nothing.
C5_FirstUsableCandidate ==
    fn = "extract_clean_value" =>
        LET row == args[1]
            column_names == args[2]
            hits == {i \in 1..Len(column_names) :
                        column_names[i] \in DOMAIN row /\ Usable(row[column_names[i]])}
        IN  /\ ret.t # "raise"
            /\ ret = IF hits = {} THEN None
                     ELSE Str(TrimmedText(row[column_names[Min(hits)]]))

\* C5's case: the first candidate holds a null word, the second a padded name.
C5_Witness ==
    /\ fn = "extract_clean_value"
    /\ args = <<[fullName |-> Str(" NULL "), name |-> Str(" Jane Doe ")],
                <<"fullName", "name">>>>
    /\ ret = Str("Jane Doe")

Keywords ==
    { "vp of engineering", "vp engineering", "vice president of engineering",
      "engineering manager", "cto", "director of engineering" }

\* sub occurs in s, the case of the letters aside
ContainsAnyCase(s, sub) ==
    \E i \in 1..(Len(s) - Len(sub) + 1) : SameLetters(SubSeq(s, i, i + Len(sub) - 1), sub)

\* the targets in another order
Reordered(p) == [i \in 1..Len(target_titles) |-> target_titles[p[i]]]

\* C6: is_target_title is false for an absent or empty title, and otherwise
\* true exactly when the title holds a keyword or "vp", in any case of the
\* letters and whatever the order in which the keywords are tried.
C6_TitleClassifier ==
    fn = "is_target_title" =>
        LET title == args[1]
        IN  /\ ~Truthy(title) => ret = FALSE
            /\ Truthy(title) =>
                 /\ ret = \E w \in Keywords \cup {"vp"} : ContainsAnyCase(title.s, w)
                 /\ \A p \in Permutations(1..Len(target_titles)) :
                        ret = title_scan(Lower(title.s), Reordered(p), 1)
            /\ title \in {Str("VP of Engineering"), Str("Director of Engineering"),
                          Str("Senior VP")} => ret = TRUE
            /\ title = Str("Software Engineer") => ret = FALSE

\* C6's case: "Senior VP" is accepted by the catch-all alone.
C6_Witness ==
    /\ fn = "is_target_title"
    /\ args = <<Str("Senior VP")>>
    /\ ret = TRUE
    /\ \A w \in Keywords : ~ContainsAnyCase("Senior VP", w)

\* tok is the first whitespace-delimited token of s
IsFirstToken(tok, s) ==
    \E i \in 1..Len(s), j \in 1..Len(s) :
        /\ i <= j
        /\ tok = SubSeq(s, i, j)
        /\ AllWhitespace(s, 1, i - 1)
        /\ \A k \in i..j : Char(s, k) \notin Whitespace
        /\ j < Len(s) => Char(s, j + 1) \in Whitespace

HasToken(name) == Truthy(name) /\ ~AllWhitespace(name.s, 1, Len(name.s))

\* the first three entries, joined by ", "
FirstThree(cs) ==
    CASE Len(cs) = 1 -> cs[1]
      [] Len(cs) = 2 -> cs[1] \o ", " \o cs[2]
      [] Len(cs) >= 3 -> cs[1] \o ", " \o cs[2] \o ", " \o cs[3]

\* C10: the message starts with the first token of name and "!", or with
\* "there!" when name is absent; its company clause is the first three
\* companies joined by ", ", no later one appearing, or "your background"
\* when there is no company.
C10_Message ==
    fn = "generate_message" =>
        LET name == args[1]
            cs == args[2]
        IN  (HasToken(name) \/ ~Truthy(name)) =>
              /\ ret.t = "str"
              /\ HasToken(name) =>
                   \E i \in 1..Len(name.s), j \in 1..Len(name.s) :
                       /\ IsFirstToken(SubSeq(name.s, i, j), name.s)
                       /\ StartsWith(ret.s, SubSeq(name.s, i, j) \o "! ")
              /\ ~Truthy(name) => StartsWith(ret.s, "there! ")
              /\ cs = <<>> => Contains(ret.s, "(your background)")
              /\ cs # <<>> =>
                   /\ Contains(ret.s, "(" \o FirstThree(cs) \o ")")
                   /\ \A k \in 4..Len(cs) :
                        (\A l \in 1..3 : cs[l] # cs[k]) => ~Contains(ret.s, cs[k])
              /\ (name = Str("Jane Doe") /\ cs = <<"Acme", "Foo", "Bar", "Baz">>) =>
                   Contains(ret.s, "Jane!") /\ Contains(ret.s, "(Acme, Foo, Bar)")

\* C10's case: Jane Doe with four companies, the fourth left out.
C10_Witness ==
    /\ fn = "generate_message"
    /\ args = <<Str("Jane Doe"), <<"Acme", "Foo", "Bar", "Baz">>>>
    /\ StartsWith(ret.s, "Jane! ")
    /\ Contains(ret.s, "(Acme, Foo, Bar)")
    /\ ~Contains(ret.s, "Baz")

=============================================================================
